---- MODULE Spec2Model ----
(***************************************************************************)
(* Model of pkg/jx/cmd/compliance_results.go: the "compliance results"     *)
(* command.  Run checks the run status, retrieves the results archive,     *)
(* and joins two errgroup tasks: Task A receives from the retrieval error  *)
(* channel, Task B unwraps the outer tar stream (untarResults), reads the  *)
(* nested archive through an io.Pipe fed by a detached copy goroutine,     *)
(* parses, filters, sorts and prints the test cases.                       *)
(***************************************************************************)
EXTENDS Integers, Sequences, FiniteSets, TLC

\* ------------------------------------------------------------------ bounds
MaxEntries == 2     \* entries in the outer tar stream
MaxLen == 2         \* content bytes of one tar entry
MaxParsed == 2      \* test cases GetTests returns in a run
MaxTests == 3       \* test cases given to filterTests / sort.Sort directly

\* ------------------------------------------------------------------ values
Min(a, b) == IF a < b THEN a ELSE b

\* The most bytes io.Copy moves in one Read/Write round, and the most the
\* consumer takes in one Read of the pipe: up to a whole entry.
CopyBuf == MaxLen
ReadBuf == MaxLen

RECURSIVE SeqsUpTo(_, _)
SeqsUpTo(S, n) ==
    IF n = 0 THEN {<<>>}
    ELSE LET shorter == SeqsUpTo(S, n - 1)
         IN  shorter \cup {Append(s, x) : s \in {t \in shorter : Len(t) = n - 1}, x \in S}

\* Errors are sequences of messages, outermost first; nil is the empty one.
Nil == <<>>
\* a wrap that keeps the message and loses the cause
WrapNoCause(err, msg) == <<msg>>

\* errors.Wrap(err, msg)
Wrap(err, msg) == <<msg>> \o err

ErrNotFound == <<"no compliance results archive found">>
\* the tar reader's non-EOF read errors
SrcErrs == {<<"unexpected EOF">>, <<"archive/tar: invalid tar header">>}
ErrRemote == <<"remote stream failed">>
ErrGzip == <<"gzip: invalid header">>
ErrParse == <<"junit parse error">>
ErrClient == <<"no cluster">>
ErrStatus == <<"status unavailable">>

MsgClient == "could not create the compliance client"
MsgStatus == "failed to retrieve the compliance status"
MsgGzip == "could not create a gzip reader for compliance results "
MsgTests == "could not get the results of the compliance tests from the archive"
MsgExtract == "could not extract the compliance results from archive"
MsgRetrieve == "failed to retrieve the results"

\* aggregation.CompleteStatus and the other statuses a run can report
CompleteStatus == "complete"
RunStatuses == {"complete", "running", "failed"}

\* ------------------------------------------------------------ test cases
\* A JUnit test case: its name and what results.Skipped / Failed / Passed
\* answer for it (three external predicates, kept independent).
TestNames == {"a", "b"}
TestCases == [name : TestNames, skipped : BOOLEAN, failed : BOOLEAN, passed : BOOLEAN]

\* status(junitResult)
status(tc) ==
    IF tc.skipped THEN "SKIPPED"
    ELSE IF tc.failed THEN "FAILED"
    ELSE IF tc.passed THEN "PASSED"
    ELSE "UNKNOWN"

\* var statuses
statuses == [l \in {"FAILED", "PASSED", "SKIPPED", "UNKNOWN"} |->
                CASE l = "FAILED" -> 0
                  [] l = "PASSED" -> 1
                  [] l = "SKIPPED" -> 2
                  [] l = "UNKNOWN" -> 3]

\* a comparison the wrong way round
LessDescending(s, i, j) == statuses[status(s[i])] > statuses[status(s[j])]

\* StatusSortedTestCases.Less(i, j)
Less(s, i, j) == statuses[status(s[i])] < statuses[status(s[j])]

\* an exchange that loses the element at i
SwapOverwrite(s, i, j) == [s EXCEPT ![i] = s[j]]

\* StatusSortedTestCases.Swap(i, j)
Swap(s, i, j) == [s EXCEPT ![i] = s[j], ![j] = s[i]]

\* The predicates filterTests is applied with; NotSkipped is the one Run passes.
Predicates == {"NotSkipped", "Failed", "Passed", "Always", "Never"}
Holds(p, tc) ==
    CASE p = "NotSkipped" -> ~tc.skipped
      [] p = "Failed" -> tc.failed
      [] p = "Passed" -> tc.passed
      [] p = "Always" -> TRUE
      [] p = "Never" -> FALSE

\* a filter that puts each kept record in front of the ones before it
RECURSIVE filterLoopPrepend(_, _, _, _)
filterLoopPrepend(p, testCases, i, out) ==
    IF i > Len(testCases) THEN out
    ELSE filterLoopPrepend(p, testCases, i + 1,
                           IF Holds(p, testCases[i]) THEN <<testCases[i]>> \o out ELSE out)

\* filterTests(predicate, testCases): the loop, front to back
RECURSIVE filterLoop(_, _, _, _)
filterLoop(p, testCases, i, out) ==
    IF i > Len(testCases) THEN out
    ELSE filterLoop(p, testCases, i + 1,
                    IF Holds(p, testCases[i]) THEN Append(out, testCases[i]) ELSE out)

\* a filter that keeps everything
filterTestsKeepAll(p, testCases) == testCases

filterTests(p, testCases) == filterLoop(p, testCases, 1, <<>>)

\* A slice as the caller holds it: nil or not, and its elements.
NilSlice == [nil |-> TRUE, elems |-> <<>>]
\* make([]reporters.JUnitTestCase, 0): empty, but not nil
MakeEmpty == [nil |-> FALSE, elems |-> <<>>]
\* the slices a caller can pass for the elements s: nil only when s is empty
SlicesOf(s) == {[nil |-> n, elems |-> s] : n \in (IF s = <<>> THEN BOOLEAN ELSE {FALSE})}

\* a filter that builds its result in the argument's own storage
\* (out := testCases[:0])
filterTestsInPlace(p, testCases) ==
    LET kept == filterTests(p, testCases.elems)
    IN  [out |-> [nil |-> testCases.nil, elems |-> kept],
         testCases |-> [testCases EXCEPT
                          !.elems = kept \o SubSeq(@, Len(kept) + 1, Len(@))]]

\* The call filterTests(predicate, testCases) on slices: what it returns and
\* what the argument holds afterwards.  out starts as make(..., 0) and grows
\* by append; testCases is only ranged over.
filterTestsCall(p, testCases) ==
    [out |-> [MakeEmpty EXCEPT !.elems = @ \o filterTests(p, testCases.elems)],
     testCases |-> testCases]

\* sort.Sort(StatusSortedTestCases(s)): an in-place comparison sort that is not
\* guaranteed to be stable.  It only looks at the data through Less and
\* changes it through Swap, and it may exchange elements neither of which is
\* less than the other; every arrangement Swap can produce in which no
\* element is less than one before it is an outcome.
Inversions(s) == {p \in (1..Len(s)) \X (1..Len(s)) : p[1] < p[2] /\ Less(s, p[2], p[1])}

RECURSIVE Arrangements(_)
Arrangements(S) ==
    LET more == S \cup {Swap(t, p[1], p[2]) :
                          t \in S, p \in {q \in (1..Len(CHOOSE u \in S : TRUE))
                                                \X (1..Len(CHOOSE u \in S : TRUE)) : q[1] < q[2]}}
    IN  IF more = S THEN S ELSE Arrangements(more)

SortOutcomes(s) == {t \in Arrangements({s}) : Inversions(t) = {}}

\* printResults: the header row, then one row per test case
HeaderRow == <<"STATUS", "TEST">>
Row(tc) == <<status(tc), tc.name>>
printResults(junitResults) ==
    <<HeaderRow>> \o [i \in 1..Len(junitResults) |-> Row(junitResults[i])]


\* ------------------------------------------------------- outer tar stream
\* strings.HasSuffix over names written as sequences of segments
HasSuffix(name, suffix) ==
    /\ Len(name) >= Len(suffix)
    /\ SubSeq(name, Len(name) - Len(suffix) + 1, Len(name)) = suffix

Suffix == <<".tar.gz">>
EntryNames == {<<"results", ".tar.gz">>, <<"results", ".tar.gz", ".sig">>}
Entries == [name : EntryNames, len : 0..MaxLen]

\* The content of the i-th entry: every byte of a stream is distinct, so a
\* byte that is dropped, repeated, moved or taken from another entry shows.
Content(i, len) == [k \in 1..len |-> 10 * i + k]

\* What the retrieval delivers: the entries in order, and fail, which is Nil
\* when the stream ends cleanly after the last entry (io.EOF) and a read
\* error when it breaks there.
Streams == [entries : SeqsUpTo(Entries, MaxEntries), fail : {Nil} \cup SrcErrs]

\* an unwrap that reports every failure of Next as "not found"
RECURSIVE untarLoopAllNotFound(_, _)
untarLoopAllNotFound(s, i) ==
    IF i > Len(s.entries)
    THEN [reader |-> "nil", ch |-> "ec", spawn |-> FALSE, visited |-> i - 1,
          sent |-> ErrNotFound]
    ELSE IF HasSuffix(s.entries[i].name, Suffix)
         THEN [reader |-> "pipe", ch |-> "nil", spawn |-> TRUE, visited |-> i, sent |-> Nil]
         ELSE untarLoopAllNotFound(s, i + 1)

\* an unwrap that passes over a matching entry when a later one matches too
RECURSIVE untarLoopLastMatch(_, _)
untarLoopLastMatch(s, i) ==
    IF i > Len(s.entries)
    THEN [reader |-> "nil", ch |-> "ec", spawn |-> FALSE, visited |-> i - 1,
          sent |-> IF s.fail = Nil THEN ErrNotFound ELSE s.fail]
    ELSE IF /\ HasSuffix(s.entries[i].name, Suffix)
            /\ \A j \in (i + 1)..Len(s.entries) : ~HasSuffix(s.entries[j].name, Suffix)
         THEN [reader |-> "pipe", ch |-> "nil", spawn |-> TRUE, visited |-> i, sent |-> Nil]
         ELSE untarLoopLastMatch(s, i + 1)

\* untarResults(src), up to its return: the loop over tarReader.Next().
\* i is the entry whose header the next call to Next reads.
RECURSIVE untarLoop(_, _)
untarLoop(s, i) ==
    IF i > Len(s.entries)
    THEN [reader |-> "nil", ch |-> "ec", spawn |-> FALSE, visited |-> i - 1,
          sent |-> IF s.fail = Nil THEN ErrNotFound ELSE s.fail]
    ELSE IF HasSuffix(s.entries[i].name, Suffix)
         THEN [reader |-> "pipe", ch |-> "nil", spawn |-> TRUE, visited |-> i, sent |-> Nil]
         ELSE untarLoop(s, i + 1)

untarResults(s) == untarLoop(s, 1)

\* ------------------------------------------------------------------ state
VARIABLES
    pc,            \* where each goroutine is: run, A, B, copy, remote
    runErr,        \* what Run returned
    runStatus,        \* status.Status
    getStatusCalls, retrieveCalls,
    tar,           \* tarReader: the headers Next has returned, the current entry's
                   \* size, and how the stream ended if Next has met its end
    chans,         \* the two error channels: contents and closed flag
    eg,            \* the errgroup: first error, tasks started, tasks finished
    doneOrder,     \* the tasks in the order they returned, with their errors
    resultsReader, \* Task B's resultsReader: "nil", "pipe", or "unset"
    errchB,        \* Task B's errch: "nil", "ec", or "unset"
    pipe,          \* io.Pipe: the chunk a Write is handing over, writer closed
    copyOff,       \* content bytes io.Copy has read from the tar entry
    copyErr,       \* what io.Copy returned
    received,      \* the bytes the consumer has read from resultsReader
    sawEOF,        \* the consumer has read end-of-stream
    parsed,        \* what GetTests returned
    table,         \* the rows rendered
    renderCount,   \* calls of table.Render
    crashed,       \* the process died of a panic
    fnIn, fnPred, fnOut, fnOp,  \* direct applications of filterTests / sort.Sort
    fnArg,         \* the slice passed to them, as the caller holds it afterwards
    fnOutNil       \* whether the slice they left in fnOut is nil

vars == <<pc, runErr, runStatus, getStatusCalls, retrieveCalls, tar, chans, eg, doneOrder,
          resultsReader, errchB, pipe, copyOff, copyErr, received, sawEOF,
          parsed, table, renderCount, crashed, fnIn, fnPred, fnOut, fnOp,
          fnArg, fnOutNil>>

runVars == <<runErr, runStatus, getStatusCalls, retrieveCalls>>
untarVars == <<resultsReader, errchB>>
copyVars == <<copyOff, copyErr>>
readVars == <<received, sawEOF>>
printVars == <<parsed, table, renderCount>>
fnVars == <<fnIn, fnPred, fnOut, fnOp, fnArg, fnOutNil>>

NewReader == [headers |-> <<>>, size |-> 0, ended |-> FALSE, fail |-> Nil]
NewChan == [buf |-> <<>>, closed |-> FALSE]

InitRun ==
    /\ pc = [run |-> "create", A |-> "idle", B |-> "idle", copy |-> "idle", remote |-> "idle"]
    /\ runErr = Nil
    /\ runStatus = "unset"
    /\ getStatusCalls = 0
    /\ retrieveCalls = 0
    /\ tar = NewReader
    /\ chans = [errch |-> NewChan, ec |-> NewChan]
    /\ eg = [err |-> Nil, started |-> 0, finished |-> 0]
    /\ doneOrder = <<>>
    /\ resultsReader = "unset"
    /\ errchB = "unset"
    /\ pipe = [data |-> <<>>, wclosed |-> FALSE]
    /\ copyOff = 0
    /\ copyErr = Nil
    /\ received = <<>>
    /\ sawEOF = FALSE
    /\ parsed = <<>>
    /\ table = <<>>
    /\ renderCount = 0
    /\ crashed = FALSE

Init ==
    /\ InitRun
    /\ fnIn = <<>>
    /\ fnArg = NilSlice
    /\ fnPred = "NotSkipped"
    /\ fnOut = <<>>
    /\ fnOutNil = TRUE
    /\ fnOp = "none"

\* ------------------------------------------------------------ Run, main
\* return from Run with err
Return(err) ==
    /\ runErr' = err
    /\ pc' = [pc EXCEPT !.run = "returned"]

\* o.Factory.CreateComplianceClient()
CreateClient ==
    /\ pc.run = "create"
    /\ \E ok \in BOOLEAN :
        IF ok THEN /\ pc' = [pc EXCEPT !.run = "getStatus"]
                   /\ UNCHANGED runErr
        ELSE Return(Wrap(ErrClient, MsgClient))
    /\ UNCHANGED <<runStatus, getStatusCalls, retrieveCalls, tar, chans, eg, doneOrder,
                   untarVars, pipe, copyVars, readVars, printVars, crashed, fnVars>>

\* a GetStatus that is tried once more after a failure
GetStatusRetried ==
    /\ pc.run = "getStatus"
    /\ getStatusCalls' = getStatusCalls + 1
    /\ \/ /\ getStatusCalls = 0
          /\ UNCHANGED <<pc, runErr, runStatus>>
       \/ /\ getStatusCalls > 0
          /\ Return(Wrap(ErrStatus, MsgStatus))
          /\ UNCHANGED runStatus
       \/ \E st \in RunStatuses :
            /\ runStatus' = st
            /\ pc' = [pc EXCEPT !.run = "checkStatus"]
            /\ UNCHANGED runErr
    /\ UNCHANGED <<retrieveCalls, tar, chans, eg, doneOrder,
                   untarVars, pipe, copyVars, readVars, printVars, crashed, fnVars>>

\* cc.GetStatus(complianceNamespace)
GetStatus ==
    /\ pc.run = "getStatus"
    /\ getStatusCalls' = getStatusCalls + 1
    /\ \/ /\ Return(Wrap(ErrStatus, MsgStatus))
          /\ UNCHANGED runStatus
       \/ \E st \in RunStatuses :
            /\ runStatus' = st
            /\ pc' = [pc EXCEPT !.run = "checkStatus"]
            /\ UNCHANGED runErr
    /\ UNCHANGED <<retrieveCalls, tar, chans, eg, doneOrder,
                   untarVars, pipe, copyVars, readVars, printVars, crashed, fnVars>>

\* a gate that only stops a run still in progress
NotCompleteOnlyRunning(st) == st = "running"

\* status.Status != aggregation.CompleteStatus
NotComplete(st) == st /= CompleteStatus

\* the status gate: return nil unless the run is complete
CheckStatus ==
    /\ pc.run = "checkStatus"
    /\ IF NotComplete(runStatus) THEN Return(Nil)
       ELSE /\ pc' = [pc EXCEPT !.run = "retrieve"]
            /\ UNCHANGED runErr
    /\ UNCHANGED <<runStatus, getStatusCalls, retrieveCalls, tar, chans, eg, doneOrder,
                   untarVars, pipe, copyVars, readVars, printVars, crashed, fnVars>>

\* reader, errch := cc.RetrieveResults(cfg); eg := &errgroup.Group{}
RetrieveResults ==
    /\ pc.run = "retrieve"
    /\ retrieveCalls' = retrieveCalls + 1
    /\ pc' = [pc EXCEPT !.run = "goA", !.remote = "streaming"]
    /\ UNCHANGED <<runErr, runStatus, getStatusCalls, tar, chans, eg, doneOrder,
                   untarVars, pipe, copyVars, readVars, printVars, crashed, fnVars>>

\* eg.Go(func() error { return <-errch })
GoA ==
    /\ pc.run = "goA"
    /\ pc' = [pc EXCEPT !.run = "goB", !.A = "recv"]
    /\ eg' = [eg EXCEPT !.started = @ + 1]
    /\ UNCHANGED <<runVars, tar, chans, doneOrder,
                   untarVars, pipe, copyVars, readVars, printVars, crashed, fnVars>>

\* eg.Go(func() error { ... })
GoB ==
    /\ pc.run = "goB"
    /\ pc' = [pc EXCEPT !.run = "wait", !.B = "untar"]
    /\ eg' = [eg EXCEPT !.started = @ + 1]
    /\ UNCHANGED <<runVars, tar, chans, doneOrder,
                   untarVars, pipe, copyVars, readVars, printVars, crashed, fnVars>>

\* eg.Wait() can return: every task started has finished
WaitReady(g) == g.finished = g.started

\* err = eg.Wait(); wrap it if it is not nil
Wait ==
    /\ pc.run = "wait"
    /\ WaitReady(eg)
    /\ Return(IF eg.err /= Nil THEN Wrap(eg.err, MsgRetrieve) ELSE Nil)
    /\ UNCHANGED <<runStatus, getStatusCalls, retrieveCalls, tar, chans, eg, doneOrder,
                   untarVars, pipe, copyVars, readVars, printVars, crashed, fnVars>>

\* The far end of RetrieveResults: it ends by sending its error, if any, and
\* closing errch.
RemoteFinish ==
    /\ pc.remote = "streaming"
    /\ \E e \in {Nil, ErrRemote} :
        chans' = [chans EXCEPT !.errch = [buf |-> IF e = Nil THEN <<>> ELSE <<e>>,
                                          closed |-> TRUE]]
    /\ pc' = [pc EXCEPT !.remote = "done"]
    /\ UNCHANGED <<runVars, tar, eg, doneOrder,
                   untarVars, pipe, copyVars, readVars, printVars, crashed, fnVars>>

\* ------------------------------------------------------- errgroup tasks
\* an errgroup that keeps the last error instead
LastError(g, r) == IF r /= Nil THEN r ELSE g.err

\* errgroup: errOnce keeps the first non-nil error a task returns
FirstError(g, r) == IF g.err = Nil THEN r ELSE g.err

\* task t returns r to the errgroup
TaskReturn(t, r) ==
    /\ pc' = [pc EXCEPT ![t] = "done"]
    /\ eg' = [eg EXCEPT !.finished = @ + 1, !.err = FirstError(eg, r)]
    /\ doneOrder' = Append(doneOrder, [task |-> t, err |-> r])

\* the channel a task receives from: Task A the retrieval's errch, Task B
\* the second result of untarResults
ChanOf(t) == IF t = "A" THEN "errch" ELSE errchB

\* a receive can proceed: the channel is not nil and holds a value or is closed
CanRecv(c) ==
    /\ c \in {"errch", "ec"}
    /\ chans[c].buf /= <<>> \/ chans[c].closed

\* what the task returns after receiving v: Task A returns it, Task B wraps it
RecvResult(t, v) ==
    IF t = "A" THEN v
    ELSE IF v /= Nil THEN Wrap(v, MsgExtract) ELSE Nil

\* return <-errch (Task A); err = <-errch and the return after it (Task B)
Recv(t) ==
    /\ pc[t] = "recv"
    /\ CanRecv(ChanOf(t))
    /\ LET c == ChanOf(t)
           v == IF chans[c].buf /= <<>> THEN Head(chans[c].buf) ELSE Nil
       IN  /\ chans' = [chans EXCEPT ![c].buf = IF @ = <<>> THEN @ ELSE Tail(@)]
           /\ TaskReturn(t, RecvResult(t, v))
    /\ UNCHANGED <<runVars, tar, untarVars, pipe, copyVars, readVars, printVars,
                   crashed, fnVars>>

\* resultsReader, errch := untarResults(reader), over the stream s that the
\* retrieval delivers; tarReader keeps what the loop has read of it
Untar ==
    /\ pc.B = "untar"
    /\ \E s \in Streams :
        LET r == untarResults(s)
        IN  /\ resultsReader' = r.reader
            /\ errchB' = r.ch
            /\ tar' = [headers |-> [i \in 1..r.visited |-> s.entries[i].name],
                       size |-> IF r.spawn THEN s.entries[r.visited].len ELSE 0,
                       ended |-> ~r.spawn,
                       fail |-> IF r.spawn THEN Nil ELSE s.fail]
            /\ chans' = IF r.sent = Nil THEN chans
                        ELSE [chans EXCEPT !.ec.buf = Append(@, r.sent)]
            /\ pc' = [pc EXCEPT !.B = "gzip", !.copy = IF r.spawn THEN "read" ELSE @]
    /\ UNCHANGED <<runVars, eg, doneOrder, pipe, copyVars, readVars, printVars,
                   crashed, fnVars>>

\* an unrecovered panic ends the process, and every goroutine with it
Panic ==
    /\ crashed' = TRUE
    /\ pc' = [p \in DOMAIN pc |-> "crashed"]

\* a Read of n bytes from the pipe's read end
PipeRead(n) ==
    /\ received' = received \o SubSeq(pipe.data, 1, n)
    /\ pipe' = [pipe EXCEPT !.data = SubSeq(@, n + 1, Len(@))]

\* a Read at end-of-stream: the writer is closed and nothing is pending
PipeAtEOF == pipe.data = <<>> /\ pipe.wclosed

ErrEOF == <<"EOF">>

\* gzip.NewReader(nil): reading the header through a nil io.Reader panics,
\* and a panic in an errgroup goroutine ends the process
GzipPanic ==
    /\ pc.B = "gzip"
    /\ resultsReader = "nil"
    /\ Panic
    /\ UNCHANGED <<runVars, tar, chans, eg, doneOrder, untarVars, pipe, copyVars,
                   readVars, printVars, fnVars>>

\* gzip.NewReader(resultsReader): reads the header; fails on a bad header or
\* on end-of-stream
GzipNewReader ==
    /\ pc.B = "gzip"
    /\ resultsReader = "pipe"
    /\ \/ /\ pipe.data /= <<>>
          /\ \E n \in 1..Min(ReadBuf, Len(pipe.data)) : PipeRead(n)
          /\ UNCHANGED sawEOF
          /\ \/ /\ pc' = [pc EXCEPT !.B = "getTests"]
                /\ UNCHANGED <<eg, doneOrder>>
             \/ TaskReturn("B", Wrap(ErrGzip, MsgGzip))
       \/ /\ PipeAtEOF
          /\ sawEOF' = TRUE
          /\ TaskReturn("B", Wrap(ErrEOF, MsgGzip))
          /\ UNCHANGED <<pipe, received>>
    /\ UNCHANGED <<runVars, tar, chans, untarVars, copyVars, printVars, crashed, fnVars>>

\* cc.GetTests(gzr, "all") reading on
GetTestsRead ==
    /\ pc.B = "getTests"
    /\ \/ /\ pipe.data /= <<>>
          /\ \E n \in 1..Min(ReadBuf, Len(pipe.data)) : PipeRead(n)
          /\ UNCHANGED sawEOF
       \/ /\ PipeAtEOF
          /\ ~sawEOF
          /\ sawEOF' = TRUE
          /\ UNCHANGED <<pipe, received>>
    /\ UNCHANGED <<pc, runVars, tar, chans, eg, doneOrder, untarVars, copyVars,
                   printVars, crashed, fnVars>>

\* cc.GetTests fails
GetTestsFail ==
    /\ pc.B = "getTests"
    /\ TaskReturn("B", Wrap(ErrParse, MsgTests))
    /\ UNCHANGED <<runVars, tar, chans, untarVars, pipe, copyVars, readVars, printVars,
                   crashed, fnVars>>

\* cc.GetTests returns the test cases it parsed, having read the archive to
\* its end
GetTestsOk ==
    /\ pc.B = "getTests"
    /\ sawEOF
    /\ \E ts \in SeqsUpTo(TestCases, MaxParsed) : parsed' = ts
    /\ pc' = [pc EXCEPT !.B = "filter"]
    /\ UNCHANGED <<runVars, tar, chans, eg, doneOrder, untarVars, pipe, copyVars,
                   readVars, table, renderCount, crashed, fnVars>>

\* testResults = filterTests(not skipped, testResults); sort.Sort(...);
\* o.printResults(testResults)
FilterSortPrint ==
    /\ pc.B = "filter"
    /\ \E sorted \in SortOutcomes(filterTests("NotSkipped", parsed)) :
        table' = printResults(sorted)
    /\ renderCount' = renderCount + 1
    /\ pc' = [pc EXCEPT !.B = "recv"]
    /\ UNCHANGED <<runVars, tar, chans, eg, doneOrder, untarVars, pipe, copyVars,
                   readVars, parsed, crashed, fnVars>>

\* ------------------------------------------- the background copy goroutine
\* a copy that reads the stream's first entry, whatever Next has skipped
CurrentFirst == Min(1, Len(tar.headers))

\* the entry io.Copy reads: the one tarReader.Next returned last
Current == Len(tar.headers)

\* io.Copy(writer, tarReader): one Read from the current tar entry and the
\* Write of what it read; io.Copy returns nil at the entry's end, and the
\* read error if the stream breaks inside the entry
CopyRead ==
    /\ pc.copy = "read"
    /\ LET rem == tar.size - copyOff
       IN  \/ /\ rem > 0
              /\ \E n \in 1..Min(CopyBuf, rem) :
                    /\ pipe' = [pipe EXCEPT !.data =
                                   SubSeq(Content(Current, tar.size), copyOff + 1, copyOff + n)]
                    /\ copyOff' = copyOff + n
              /\ pc' = [pc EXCEPT !.copy = "write"]
              /\ UNCHANGED <<copyErr, tar>>
           \/ /\ rem > 0
              /\ \E e \in SrcErrs :
                    /\ copyErr' = e
                    /\ tar' = [tar EXCEPT !.ended = TRUE, !.fail = e]
              /\ pc' = [pc EXCEPT !.copy = "send"]
              /\ UNCHANGED <<pipe, copyOff>>
           \/ /\ rem = 0
              /\ pc' = [pc EXCEPT !.copy = "closeEc"]
              /\ UNCHANGED <<pipe, copyOff, copyErr, tar>>
    /\ UNCHANGED <<runVars, chans, eg, doneOrder, untarVars, readVars, printVars,
                   crashed, fnVars>>

\* the pipe Write returns once the reader has taken the whole chunk
CopyWritten ==
    /\ pc.copy = "write"
    /\ pipe.data = <<>>
    /\ pc' = [pc EXCEPT !.copy = "read"]
    /\ UNCHANGED <<runVars, tar, chans, eg, doneOrder, untarVars, pipe, copyVars,
                   readVars, printVars, crashed, fnVars>>

\* an unbuffered channel: make(chan error)
EcCapUnbuffered == Len(<<>>)

\* cap(ec)
EcCap == 1

\* a copy goroutine that goes on to its deferred calls without sending
CopySendSkipped ==
    /\ pc.copy = "send"
    /\ pc' = [pc EXCEPT !.copy = "closeEc"]
    /\ UNCHANGED <<runVars, tar, chans, eg, doneOrder, untarVars, pipe, copyVars, readVars,
                   printVars, crashed, fnVars>>

\* ec <- err
CopySend ==
    /\ pc.copy = "send"
    /\ Len(chans.ec.buf) < EcCap
    /\ IF chans.ec.closed
       THEN /\ Panic
            /\ UNCHANGED chans
       ELSE /\ chans' = [chans EXCEPT !.ec.buf = Append(@, copyErr)]
            /\ pc' = [pc EXCEPT !.copy = "closeEc"]
            /\ UNCHANGED crashed
    /\ UNCHANGED <<runVars, tar, eg, doneOrder, untarVars, pipe, copyVars, readVars,
                   printVars, fnVars>>

\* defer close(ec)
CopyCloseEc ==
    /\ pc.copy = "closeEc"
    /\ chans' = [chans EXCEPT !.ec.closed = TRUE]
    /\ pc' = [pc EXCEPT !.copy = "closeWriter"]
    /\ UNCHANGED <<runVars, tar, eg, doneOrder, untarVars, pipe, copyVars, readVars,
                   printVars, crashed, fnVars>>

\* defer writer.Close()
CopyCloseWriter ==
    /\ pc.copy = "closeWriter"
    /\ pipe' = [pipe EXCEPT !.wclosed = TRUE]
    /\ pc' = [pc EXCEPT !.copy = "done"]
    /\ UNCHANGED <<runVars, tar, chans, eg, doneOrder, untarVars, copyVars, readVars,
                   printVars, crashed, fnVars>>

\* ------------------------------------------------------------ the command
Next ==
    \/ CreateClient
    \/ GetStatus
    \/ CheckStatus
    \/ RetrieveResults
    \/ GoA
    \/ GoB
    \/ Wait
    \/ RemoteFinish
    \/ \E t \in {"A", "B"} : Recv(t)
    \/ Untar
    \/ GzipPanic
    \/ GzipNewReader
    \/ GetTestsRead
    \/ GetTestsFail
    \/ GetTestsOk
    \/ FilterSortPrint
    \/ CopyRead
    \/ CopyWritten
    \/ CopySend
    \/ CopyCloseEc
    \/ CopyCloseWriter

Spec == Init /\ [][Next]_vars

\* ------------------------------- filterTests and sort.Sort applied directly
InitPure ==
    /\ InitRun
    /\ fnIn \in SeqsUpTo(TestCases, MaxTests)
    /\ fnArg \in SlicesOf(fnIn)
    /\ fnPred = "NotSkipped"
    /\ fnOut = <<>>
    /\ fnOutNil = TRUE
    /\ fnOp = "none"

\* out := filterTests(predicate, fnIn)
ApplyFilter ==
    /\ fnOp = "none"
    /\ \E p \in Predicates :
        /\ fnPred' = p
        /\ LET r == filterTestsCall(p, fnArg)
           IN  /\ fnOut' = r.out.elems
               /\ fnOutNil' = r.out.nil
               /\ fnArg' = r.testCases
    /\ fnOp' = "filter"
    /\ UNCHANGED <<pc, runVars, tar, chans, eg, doneOrder, untarVars, pipe, copyVars,
                   readVars, printVars, crashed, fnIn>>

\* sort.Sort(StatusSortedTestCases(fnArg)): the slice is sorted in place,
\* fnOut is that same slice
ApplySort ==
    /\ fnOp = "none"
    /\ fnOut' \in SortOutcomes(fnArg.elems)
    /\ fnArg' = [fnArg EXCEPT !.elems = fnOut']
    /\ fnOutNil' = fnArg.nil
    /\ fnOp' = "sort"
    /\ UNCHANGED <<pc, runVars, tar, chans, eg, doneOrder, untarVars, pipe, copyVars,
                   readVars, printVars, crashed, fnIn, fnPred>>

NextPure == ApplyFilter \/ ApplySort

SpecPure == InitPure /\ [][NextPure]_vars

\* ------------------------------------------------------------ properties
\* the error a task returned to the errgroup, Nil if it has not returned one
ReturnedBy(t) ==
    LET own == SelectSeq(doneOrder, LAMBDA d : d.task = t)
    IN  IF own = <<>> THEN Nil ELSE own[1].err

Rendered == renderCount >= 1

\* C1: callers are never left blocked.  Once the run was complete, the stream
\* held a '.tar.gz' entry and was read to its end, and parsing succeeded (the
\* table was rendered), the command cannot come to a halt short of both
\* tasks being done and Run having returned, with nil unless the retrieval
\* reported an error.
C1_NeverLeftBlocked ==
    (Rendered /\ ~crashed) =>
        \/ ENABLED Next
        \/ /\ pc.A = "done" /\ pc.B = "done" /\ pc.run = "returned"
           /\ ReturnedBy("A") = Nil => runErr = Nil

\* C2: status gate.  With a status other than complete, Run goes no further
\* than the gate: it returns nil, RetrieveResults is not called, no task and
\* no goroutine is started, and nothing is rendered.
C2_StatusGate ==
    (runStatus \in RunStatuses /\ runStatus /= CompleteStatus) =>
        /\ pc.run \in {"checkStatus", "returned"}
        /\ pc.run = "returned" => runErr = Nil
        /\ retrieveCalls = 0
        /\ eg.started = 0
        /\ pc.A = "idle" /\ pc.B = "idle" /\ pc.copy = "idle" /\ pc.remote = "idle"
        /\ renderCount = 0 /\ table = <<>>

C2_Witness ==
    /\ runStatus = "failed"
    /\ pc.run = "returned"
    /\ runErr = Nil
    /\ getStatusCalls = 1

\* the outer unwrap has returned with a failure
UntarFailed == resultsReader = "nil"

\* C3: a failure of the outer unwrap is surfaced by Run as an error: the
\* process does not crash, Task B returns a non-nil error carrying the
\* failure, and Run does not return nil.
C3_UnwrapFailureSurfaced ==
    UntarFailed =>
        /\ ~crashed
        /\ pc.B = "done" => /\ ReturnedBy("B") /= Nil
                            /\ \E k \in 0..Len(ReturnedBy("B")) :
                                 SubSeq(ReturnedBy("B"), k + 1, Len(ReturnedBy("B")))
                                    = (IF tar.fail = Nil THEN ErrNotFound ELSE tar.fail)
        /\ pc.run = "returned" => runErr /= Nil

NoMatchingHeader == \A i \in 1..Len(tar.headers) : ~HasSuffix(tar.headers[i], Suffix)

UntarReturned == resultsReader /= "unset"

\* C4: when the outer tar stream holds no entry whose name ends in
\* '.tar.gz', untarResults returns a nil reader and a channel holding
\* exactly one error, ready to be received: the "not found" error if the
\* stream ended cleanly, and the tar reader's own error, unmodified, if not.
C4_UnwrapFailure ==
    (UntarReturned /\ NoMatchingHeader) =>
        /\ resultsReader = "nil"
        /\ errchB = "ec"
        /\ tar.ended
        /\ chans.ec.buf = <<IF tar.fail = Nil THEN ErrNotFound ELSE tar.fail>>
        /\ ~chans.ec.closed
        /\ Len(chans.ec.buf) <= EcCap

C4_Witness ==
    /\ UntarReturned
    /\ NoMatchingHeader
    /\ Len(tar.headers) = 2
    /\ tar.fail \in SrcErrs
    /\ chans.ec.buf = <<tar.fail>>

IsPrefix(a, b) == Len(a) <= Len(b) /\ a = SubSeq(b, 1, Len(a))

\* the content of the entry untarResults matched
MatchedContent == Content(Len(tar.headers), tar.size)

\* C5: streaming fidelity.  What the consumer has read from the returned
\* reader is always a prefix of the matched entry's content, and once it has
\* read end-of-stream from an intact entry it has read exactly that content.
C5_StreamingFidelity ==
    resultsReader = "pipe" =>
        /\ IsPrefix(received, MatchedContent)
        /\ (sawEOF /\ copyErr = Nil) => received = MatchedContent

C5_Witness ==
    /\ resultsReader = "pipe"
    /\ Len(tar.headers) = 2
    /\ sawEOF
    /\ copyErr = Nil
    /\ Len(received) = 2
    /\ received = MatchedContent

\* the error Run must return for the tasks' errors in the order they came
FirstFailure ==
    LET failed == SelectSeq(doneOrder, LAMBDA d : d.err /= Nil)
    IN  IF failed = <<>> THEN Nil ELSE Wrap(failed[1].err, MsgRetrieve)

\* C6: fan-in barrier.  Run returns from the retrieval phase only after both
\* tasks have returned; it returns nil if neither returned an error, and
\* otherwise the wrapped error of the task that failed first.
C6_FanInBarrier ==
    (pc.run = "returned" /\ retrieveCalls = 1) =>
        /\ pc.A = "done" /\ pc.B = "done"
        /\ {doneOrder[i].task : i \in 1..Len(doneOrder)} = {"A", "B"}
        /\ runErr = FirstFailure

C6_Witness ==
    /\ pc.run = "returned"
    /\ Len(doneOrder) = 2
    /\ doneOrder[1].task = "B" /\ doneOrder[1].err /= Nil
    /\ doneOrder[2].task = "A" /\ doneOrder[2].err /= Nil
    /\ runErr = Wrap(doneOrder[1].err, MsgRetrieve)

\* C7: a failure of the background copy is surfaced.  When io.Copy has
\* failed and the copy goroutine has exited, Task B, once at its receive from
\* the extraction error channel, can receive, and a Run that returns after
\* that reports that the results could not be extracted.
C7_CopyFailureSurfaced ==
    (copyErr /= Nil /\ pc.copy = "done") =>
        /\ pc.B = "recv" => ENABLED Recv("B")
        /\ (Rendered /\ pc.run = "returned") =>
              runErr = Wrap(Wrap(copyErr, MsgExtract), MsgRetrieve)

Count(seq, x) == Cardinality({i \in 1..Len(seq) : seq[i] = x})

\* C8: filterTests returns the records that satisfy the predicate, in their
\* original order; with the predicate Run uses, as many as there are records
\* not skipped, none of them skipped.
C8_FilterSubsequence ==
    fnOp = "filter" =>
        /\ fnOut = SelectSeq(fnIn, LAMBDA tc : Holds(fnPred, tc))
        /\ fnPred = "NotSkipped" =>
              /\ Len(fnOut) = Cardinality({i \in 1..Len(fnIn) : ~fnIn[i].skipped})
              /\ \A j \in 1..Len(fnOut) : ~fnOut[j].skipped

C8_Witness ==
    /\ fnOp = "filter"
    /\ fnPred = "NotSkipped"
    /\ Len(fnIn) = 3
    /\ fnIn[2].skipped
    /\ fnOut = <<fnIn[1], fnIn[3]>>
    /\ fnIn[1] /= fnIn[3]

\* the order of the status labels claimed: FAILED, PASSED, SKIPPED, UNKNOWN
LabelOrder == <<"FAILED", "PASSED", "SKIPPED", "UNKNOWN">>
Rank(label) == CHOOSE k \in 1..Len(LabelOrder) : LabelOrder[k] = label

Labels(seq) == [i \in 1..Len(seq) |-> status(seq[i])]

\* C9: sorting yields a permutation of the input with every FAILED record
\* before every PASSED, every PASSED before every SKIPPED, and every SKIPPED
\* before every UNKNOWN one.
C9_SortByStatus ==
    fnOp = "sort" =>
        /\ Len(fnOut) = Len(fnIn)
        /\ \A tc \in TestCases : Count(fnOut, tc) = Count(fnIn, tc)
        /\ \A i, j \in 1..Len(fnOut) :
              i < j => Rank(status(fnOut[i])) <= Rank(status(fnOut[j]))

C9_Witness ==
    /\ fnOp = "sort"
    /\ Labels(fnIn) = <<"SKIPPED", "FAILED", "PASSED">>
    /\ Labels(fnOut) = <<"FAILED", "PASSED", "SKIPPED">>

\* the rows after the header
Body == Tail(table)

\* C10: end-to-end rendering.  The table is rendered at most once; when it
\* is, it is the header row followed by exactly one (label, name) row for
\* each parsed test case that is not skipped, in non-decreasing status
\* priority, with no SKIPPED row.
C10_RenderedTable ==
    /\ renderCount <= 1
    /\ renderCount = 0 => table = <<>>
    /\ renderCount = 1 =>
          /\ table[1] = <<"STATUS", "TEST">>
          /\ \A l \in {"FAILED", "PASSED", "SKIPPED", "UNKNOWN"}, n \in TestNames :
                Count(Body, <<l, n>>) =
                    Cardinality({i \in 1..Len(parsed) :
                                    /\ ~parsed[i].skipped
                                    /\ status(parsed[i]) = l
                                    /\ parsed[i].name = n})
          /\ \A i, j \in 1..Len(Body) : i < j => Rank(Body[i][1]) <= Rank(Body[j][1])
          /\ \A i \in 1..Len(Body) : Body[i][1] /= "SKIPPED"

C10_Witness ==
    /\ renderCount = 1
    /\ Len(parsed) = 2
    /\ status(parsed[1]) = "PASSED"
    /\ status(parsed[2]) = "FAILED"
    /\ table = <<<<"STATUS", "TEST">>, <<"FAILED", parsed[2].name>>, <<"PASSED", parsed[1].name>>>>

\* the copy goroutine has run its deferred close(ec)
EcCloseDone == pc.copy \in {"closeWriter", "done"}

\* C11: when the background copy goroutine has exited, after a copy that
\* succeeded or failed, the pipe writer and the extraction error channel
\* are both closed; a copy error was put on the channel before the channel
\* was closed, so it is the first thing a receive gets.
C11_CopyExitCloses ==
    /\ pc.copy = "done" => pipe.wclosed /\ chans.ec.closed
    /\ EcCloseDone <=> chans.ec.closed
    /\ (pc.copy = "closeEc" /\ copyErr /= Nil) =>
          ~chans.ec.closed /\ chans.ec.buf = <<copyErr>>
    /\ (chans.ec.closed /\ copyErr /= Nil) =>
          chans.ec.buf /= <<>> /\ Head(chans.ec.buf) = copyErr
    /\ (chans.ec.closed /\ copyErr = Nil) => chans.ec.buf = <<>>

C11_Witness ==
    /\ pc.copy = "done"
    /\ copyErr \in SrcErrs
    /\ chans.ec = [buf |-> <<copyErr>>, closed |-> TRUE]
    /\ pipe.wclosed

\* the tasks that have sent on the extraction error channel: Task B, inside
\* untarResults, when the unwrap failed; the copy goroutine when io.Copy failed
EcWriters ==
    (IF resultsReader = "nil" THEN {"B"} ELSE {})
        \cup (IF copyErr /= Nil /\ pc.copy \in {"closeEc", "closeWriter", "done"}
              THEN {"copy"} ELSE {})

\* the tasks that hold the extraction error channel to receive from it
EcReaders == IF errchB = "ec" THEN {"B"} ELSE {}

\* C12: single writer, single reader.  The extraction error channel has at
\* most one writer, and no value written to it is left without a reader:
\* while it holds a value, some task holds the channel to receive from it
\* (stated for the executions that do not end in a panic).
C12_SingleWriterSingleReader ==
    ~crashed =>
        /\ Cardinality(EcWriters) <= 1
        /\ chans.ec.buf /= <<>> => Cardinality(EcReaders) = 1

\* Task B has returned the error of a failed gzip.NewReader or GetTests
DecodeFailed ==
    /\ pc.B = "done"
    /\ ReturnedBy("B") /= Nil
    /\ Head(ReturnedBy("B")) \in {MsgGzip, MsgTests}

\* the errors gzip.NewReader and GetTests fail with
DecodeErrs == {ErrGzip, ErrEOF, ErrParse}

\* C13: decompress/parse failure.  When gzip.NewReader or GetTests fails,
\* Task B returns the error wrapped with its context, nothing is filtered,
\* sorted or rendered, and Run, when it returns, returns a non-nil error.
C13_DecodeFailure ==
    DecodeFailed =>
        /\ Tail(ReturnedBy("B")) \in DecodeErrs
        /\ Head(ReturnedBy("B")) = MsgGzip <=> Tail(ReturnedBy("B")) \in {ErrGzip, ErrEOF}
        /\ parsed = <<>>
        /\ table = <<>>
        /\ renderCount = 0
        /\ pc.run = "returned" => runErr /= Nil /\ Head(runErr) = MsgRetrieve

C13_Witness ==
    /\ DecodeFailed
    /\ ReturnedBy("B") = <<MsgTests>> \o ErrParse
    /\ received /= <<>>
    /\ pc.run = "returned"
    /\ runErr = <<MsgRetrieve, MsgTests>> \o ErrParse

\* no goroutine beyond main has been started and nothing has been rendered
NothingStarted ==
    /\ eg.started = 0
    /\ pc.A = "idle" /\ pc.B = "idle" /\ pc.copy = "idle" /\ pc.remote = "idle"
    /\ renderCount = 0 /\ table = <<>>

\* C14: early fatal errors.  If creating the client fails, Run returns the
\* wrapped error without calling GetStatus or RetrieveResults; if GetStatus
\* fails, Run returns the wrapped error after that one call, without
\* calling RetrieveResults or rendering a table.
C14_EarlyFatalErrors ==
    /\ getStatusCalls <= 1
    /\ (pc.run = "returned" /\ getStatusCalls = 0) =>
          /\ runErr = <<MsgClient>> \o ErrClient
          /\ retrieveCalls = 0
          /\ NothingStarted
    /\ (pc.run = "returned" /\ getStatusCalls = 1 /\ runStatus = "unset") =>
          /\ runErr = <<MsgStatus>> \o ErrStatus
          /\ retrieveCalls = 0
          /\ NothingStarted
    /\ (runErr /= Nil /\ Head(runErr) \in {MsgClient, MsgStatus}) =>
          /\ pc.run = "returned"
          /\ runStatus = "unset"
          /\ Head(runErr) = MsgClient <=> getStatusCalls = 0

C14_Witness ==
    /\ pc.run = "returned"
    /\ runErr = <<MsgStatus>> \o ErrStatus
    /\ getStatusCalls = 1
    /\ retrieveCalls = 0

\* the name's last segment is the archive extension
EndsInTarGz(name) == name /= <<>> /\ name[Len(name)] = ".tar.gz"

\* the bytes that have left the tar reader towards the consumer
Forwarded == received \o pipe.data

\* C15: only the first entry whose name ends in ".tar.gz" is used.  Every
\* header read before the one in use belongs to a non-matching entry, the
\* one in use matches, every forwarded byte is a byte of that entry, and
\* once untarResults has returned no further header is ever read.
C15_FirstMatchOnly ==
    /\ [](resultsReader = "pipe" =>
            /\ tar.headers /= <<>>
            /\ \A i \in 1..(Len(tar.headers) - 1) : ~EndsInTarGz(tar.headers[i])
            /\ EndsInTarGz(tar.headers[Len(tar.headers)])
            /\ \A k \in 1..Len(Forwarded) :
                  \E m \in 1..tar.size : Forwarded[k] = 10 * Len(tar.headers) + m)
    /\ [][pc.B /= "untar" => tar'.headers = tar.headers]_vars

C15_Witness ==
    /\ resultsReader = "pipe"
    /\ Len(tar.headers) = 2
    /\ ~EndsInTarGz(tar.headers[1])
    /\ received /= <<>>
    /\ pc.copy = "done"

\* the records of seq that carry the status label l, in their order in seq
WithLabel(seq, l) == SelectSeq(seq, LAMBDA tc : status(tc) = l)

\* the sort is stable: the records of one priority keep their input order
C16_SortStable ==
    fnOp = "sort" =>
        \A k \in 1..Len(LabelOrder) :
            WithLabel(fnOut, LabelOrder[k]) = WithLabel(fnIn, LabelOrder[k])

\* C16: the sort keeps, for every status priority, exactly the records of
\* that priority (each as often as in the input) and puts them next to each
\* other in priority order; it fixes no order among records of one priority.
C16_SortTiesPermuted ==
    fnOp = "sort" =>
        /\ \A k \in 1..Len(LabelOrder) :
              LET o == WithLabel(fnOut, LabelOrder[k])
                  n == WithLabel(fnIn, LabelOrder[k])
              IN  /\ Len(o) = Len(n)
                  /\ \A tc \in TestCases : Count(o, tc) = Count(n, tc)
        /\ fnOut = WithLabel(fnOut, LabelOrder[1]) \o WithLabel(fnOut, LabelOrder[2])
                     \o WithLabel(fnOut, LabelOrder[3]) \o WithLabel(fnOut, LabelOrder[4])

\* two records of one priority come out in the opposite order
C16_Witness ==
    /\ fnOp = "sort"
    /\ Len(fnIn) = 3
    /\ Labels(fnIn) = <<"PASSED", "PASSED", "FAILED">>
    /\ fnIn[1] /= fnIn[2]
    /\ fnOut = <<fnIn[3], fnIn[2], fnIn[1]>>

\* C17: filterTests leaves its input as it was (same elements, same order,
\* same length) and returns a slice that is not nil, and that is empty when
\* no record satisfies the predicate, an empty or nil input included.
C17_FilterFrame ==
    fnOp = "filter" =>
        /\ fnArg.elems = fnIn
        /\ Len(fnArg.elems) = Len(fnIn)
        /\ fnArg.nil => fnIn = <<>>
        /\ ~fnOutNil
        /\ (\A i \in 1..Len(fnIn) : ~Holds(fnPred, fnIn[i])) => fnOut = <<>>

C17_Witness ==
    /\ fnOp = "filter"
    /\ Len(fnIn) = 3
    /\ fnIn[1].skipped /\ ~fnIn[2].skipped /\ fnIn[1] /= fnIn[2]
    /\ fnPred = "NotSkipped"
    /\ fnArg.elems = fnIn
    /\ fnOut /= <<>>
    /\ ~fnOutNil

\* the copy goroutine has run its deferred calls to the end
CopyExited == pc.copy = "done" /\ pipe.wclosed

\* C18: the background copy task always terminates.  In no execution does
\* the command come to rest with a spawned copy task that has not exited and
\* closed the pipe writer, the consumer stopping early included.
C18_CopyTerminates ==
    (~ENABLED Next /\ ~crashed /\ pc.copy /= "idle") => CopyExited

\* a step that sends on ec
EcSend == Len(chans'.ec.buf) > Len(chans.ec.buf)

\* C19: sends on ec never block and never hit a closed channel.  ec never
\* holds more than its capacity; a copy task about to send finds room and
\* the channel open; every send puts one value into an empty, open channel
\* and nothing is taken out or added after, so at most one value is ever
\* sent; the caller loop sends only when no copy task was spawned; and once
\* closed the channel does not change.
C19_EcSendsSafe ==
    /\ [](/\ Len(chans.ec.buf) <= EcCap
          /\ pc.copy = "send" => Len(chans.ec.buf) < EcCap /\ ~chans.ec.closed
          /\ resultsReader = "nil" =>
                /\ pc.copy \in {"idle", "crashed"}
                /\ copyErr = Nil
                /\ Len(chans.ec.buf) = 1
                /\ ~chans.ec.closed
          /\ resultsReader = "pipe" =>
                chans.ec.buf \in {<<>>, <<copyErr>>})
    /\ [][/\ EcSend => /\ chans.ec.buf = <<>>
                       /\ ~chans.ec.closed
                       /\ Len(chans'.ec.buf) = 1
          /\ Len(chans'.ec.buf) >= Len(chans.ec.buf)
          /\ chans.ec.closed => chans'.ec = chans.ec]_vars

C19_Witness ==
    /\ pc.copy = "closeEc"
    /\ copyErr /= Nil
    /\ Len(chans.ec.buf) = EcCap
    /\ Head(chans.ec.buf) = copyErr
    /\ ~chans.ec.closed

====
